---- MODULE Spec2Model ----
(***************************************************************************)
(* Postal-code parsing and area-code resolution (src/area_code.py),       *)
(* phone-number candidate selection (src/login_ghl.py) and the offboarding *)
(* command (src/get_users.py) of the onboarding automation.                *)
(*                                                                         *)
(* Postal codes and area codes are modelled by their numeric value (all    *)
(* codes used have no leading zero, so numeric order is string order).     *)
(* A Python list is a sequence, a Python dict is a sequence of [k, v]      *)
(* records in insertion order, and None is the empty sequence None while   *)
(* a present value x is <<x>>.                                             *)
(***************************************************************************)
EXTENDS Integers, Sequences, FiniteSets, TLC

\* ---------------------------------------------------------------- bounds
MaxZips == 2          \* longest list of postal codes handed to a lookup
MaxBlocks == 2        \* most area-code blocks in one reply of the oracle
MaxRows == 2          \* most rows in the rendered table of candidates
MaxAtoms == 3         \* longest text handed to parse_zip_codes, in tokens
MaxElems == 2         \* longest list handed to parse_zip_codes
MaxCalendars == 2     \* most calendars a user is a team member of
MaxCandidates == 3    \* most rows in the table read by capture_all_phone_numbers

\* ------------------------------------------------------------ value sets
Zips == {75034, 99999}
AreaCodes == {214, 972}

None == <<>>
Some(x) == <<x>>

RECURSIVE SeqsUpTo(_, _)
SeqsUpTo(S, n) ==
    IF n = 0 THEN {<<>>}
    ELSE LET shorter == SeqsUpTo(S, n - 1)
         IN  shorter \cup {Append(s, x) : s \in {t \in shorter : Len(t) = n - 1}, x \in S}

Range(s) == {s[i] : i \in 1..Len(s)}

\* Only({F(x) : x \in {e}}) is F(e), with e evaluated once
Only(S) == CHOOSE x \in S : TRUE

\* ------------------------------------------------- Python dict (ordered)
EmptyDict == <<>>
DictKeys(d) == {d[i].k : i \in 1..Len(d)}
DictHas(d, key) == key \in DictKeys(d)
DictGet(d, key) == LET i == CHOOSE j \in 1..Len(d) : d[j].k = key IN d[i].v
\* d[key] = val : an existing key keeps its position, a new key goes last
DictSet(d, key, val) ==
    IF DictHas(d, key)
    THEN [i \in 1..Len(d) |-> IF d[i].k = key THEN [k |-> key, v |-> val] ELSE d[i]]
    ELSE Append(d, [k |-> key, v |-> val])
RECURSIVE DictMerge(_, _)
\* {**a, **b}
DictMerge(a, b) ==
    IF b = <<>> THEN a
    ELSE Only({ DictMerge(a2, Tail(b)) : a2 \in {DictSet(a, Head(b).k, Head(b).v)} })

\* sorted(S) for a finite set of integers
RECURSIVE Sorted(_)
Sorted(S) ==
    IF S = {} THEN <<>>
    ELSE Only({ <<m>> \o Sorted(rest) : m \in {x \in S : \A y \in S : x <= y},
                                          rest \in {S \ {x \in S : \A y \in S : x <= y}} })

\* ------------------------------------------------------- oracle replies
\* Reply to a single-ZIP request: the transport fails, or a text comes back;
\* `header` is what re.search(r'### Area Code: (\d{3})') finds in it, the
\* first header's code or nothing.
OneReplies ==
    {[kind |-> "raise", header |-> None]}
    \cup {[kind |-> "text", header |-> h] : h \in {None} \cup {Some(a) : a \in AreaCodes}}

\* Reply to a batch request: the transport fails, or a text comes back that
\* is a sequence of blocks.  A block is a header "### Area Code: <code>" with
\* its "**Overlays:**" line and, when `line` holds, its "**ZIPs:**" line with
\* the postal codes `zips`; a block without that line is a group the oracle
\* left without a list.  A block with an empty list stands for a group that
\* lists no postal code and for a stray 3-digit token alike: neither adds to
\* the sections' result and both count as a 3-digit token.
NoDupSeqs(S) ==
    {s \in SeqsUpTo(S, Cardinality(S)) : \A i, j \in 1..Len(s) : i # j => s[i] # s[j]}
Blocks ==
    {[code |-> a, line |-> TRUE, zips |-> z] : a \in AreaCodes, z \in NoDupSeqs(Zips)}
    \cup {[code |-> a, line |-> FALSE, zips |-> <<>>] : a \in AreaCodes}
BatchReplies ==
    {[kind |-> "raise", blocks |-> <<>>]}
    \cup {[kind |-> "text", blocks |-> b] : b \in SeqsUpTo(Blocks, MaxBlocks)}

ZipLists == SeqsUpTo(Zips, MaxZips)

\* ------------------------------------------------------------ the cache
\* _area_code_cache: a dict ZIP -> list of area codes; only membership and
\* values are ever read, so it is a function on the cached ZIPs.
CacheSet(c, zip, val) ==
    [z \in (DOMAIN c) \cup {zip} |-> IF z = zip THEN val ELSE c[z]]
\* one assignment _area_code_cache[zip] = val, as an entry of the list of
\* the assignments a call made, in the order it made them
CacheWrite(zip, val) == [zip |-> zip, val |-> val]

\* -------------------------------------------------- single-ZIP lookups
\* get_area_codes_for_zip_openai without its except clause: a transport
\* failure leaves the function as an exception
get_area_codes_for_zip_openai_NoExcept(key, zip_code, reply) ==
    IF ~key
    THEN [value |-> <<>>, sent |-> <<>>, raised |-> FALSE]
    ELSE IF reply.kind = "raise"
    THEN [value |-> <<>>, sent |-> <<(<<zip_code>>)>>, raised |-> TRUE]
    ELSE IF reply.header # None
    THEN [value |-> <<reply.header[1]>>, sent |-> <<(<<zip_code>>)>>, raised |-> FALSE]
    ELSE [value |-> <<>>, sent |-> <<(<<zip_code>>)>>, raised |-> FALSE]

\* get_area_codes_for_zip_openai: value returned, requests sent to the
\* oracle, and whether an exception leaves the function.
get_area_codes_for_zip_openai(key, zip_code, reply) ==
    IF ~key
    THEN [value |-> <<>>, sent |-> <<>>, raised |-> FALSE]
    ELSE IF reply.kind = "raise"
    THEN [value |-> <<>>, sent |-> <<(<<zip_code>>)>>, raised |-> FALSE]
    ELSE IF reply.header # None
    THEN [value |-> <<reply.header[1]>>, sent |-> <<(<<zip_code>>)>>, raised |-> FALSE]
    ELSE [value |-> <<>>, sent |-> <<(<<zip_code>>)>>, raised |-> FALSE]

\* get_area_codes_for_zip without line 92: an empty answer is not cached
get_area_codes_for_zip_EmptyNotCached(c, key, zip_code, reply) ==
    IF zip_code \in DOMAIN c
    THEN [cache |-> c, value |-> c[zip_code], sent |-> <<>>, raised |-> FALSE,
          writes |-> <<>>]
    ELSE Only({ IF r.raised
                THEN [cache |-> c, value |-> <<>>, sent |-> r.sent, raised |-> TRUE,
                      writes |-> <<>>]
                ELSE [cache |-> IF r.value # <<>> THEN CacheSet(c, zip_code, r.value) ELSE c,
                      value |-> r.value, sent |-> r.sent, raised |-> FALSE,
                      writes |-> IF r.value # <<>> THEN <<CacheWrite(zip_code, r.value)>>
                                 ELSE <<>>]
              : r \in {get_area_codes_for_zip_openai(key, zip_code, reply)} })

\* get_area_codes_for_zip without lines 80-82: the cache is written but
\* never read
get_area_codes_for_zip_CacheNotRead(c, key, zip_code, reply) ==
    Only({ IF r.raised
           THEN [cache |-> c, value |-> <<>>, sent |-> r.sent, raised |-> TRUE,
                 writes |-> <<>>]
           ELSE [cache |-> CacheSet(c, zip_code, r.value), value |-> r.value,
                 sent |-> r.sent, raised |-> FALSE,
                 writes |-> <<CacheWrite(zip_code, r.value)>>]
         : r \in {get_area_codes_for_zip_openai(key, zip_code, reply)} })

\* get_area_codes_for_zip: cache first, then the oracle; the answer, also
\* an empty one, is written to the cache.
get_area_codes_for_zip(c, key, zip_code, reply) ==
    IF zip_code \in DOMAIN c
    THEN [cache |-> c, value |-> c[zip_code], sent |-> <<>>, raised |-> FALSE,
          writes |-> <<>>]
    ELSE Only({ IF r.raised
                THEN [cache |-> c, value |-> <<>>, sent |-> r.sent, raised |-> TRUE,
                      writes |-> <<>>]
                ELSE [cache |-> CacheSet(c, zip_code, r.value), value |-> r.value,
                      sent |-> r.sent, raised |-> FALSE,
                      writes |-> <<CacheWrite(zip_code, r.value)>>]
              : r \in {get_area_codes_for_zip_openai(key, zip_code, reply)} })

\* ------------------------------------------------------- batch lookup
\* lines 201-205 without the cache test: every requested ZIP is sent
UncachedZips_All(c, zs) == zs

\* the loop of lines 201-205: split the request into cached and uncached
RECURSIVE UncachedZips(_, _)
UncachedZips(c, zs) ==
    IF zs = <<>> THEN <<>>
    ELSE IF Head(zs) \in DOMAIN c THEN UncachedZips(c, Tail(zs))
    ELSE <<Head(zs)>> \o UncachedZips(c, Tail(zs))
RECURSIVE CachedResults(_, _, _)
CachedResults(c, zs, acc) ==
    IF zs = <<>> THEN acc
    ELSE IF Head(zs) \in DOMAIN c
    THEN Only({ CachedResults(c, Tail(zs), acc2)
              : acc2 \in {DictSet(acc, Head(zs), c[Head(zs)])} })
    ELSE CachedResults(c, Tail(zs), acc)

\* re.findall of the section pattern with re.DOTALL: (area_code, zips_str)
\* pairs, in order.  A match starts at a header and runs, over whatever lies
\* between (".*?" also matches newlines and further headers), to the first
\* "**ZIPs:**" line that follows; the search goes on after that line.
RECURSIVE Sections(_)
Sections(blocks) ==
    IF \A j \in 1..Len(blocks) : ~blocks[j].line THEN <<>>
    ELSE Only({ <<[code |-> blocks[1].code, zips |-> blocks[j].zips]>>
                    \o Sections(SubSeq(blocks, j + 1, Len(blocks)))
              : j \in {k \in 1..Len(blocks) :
                          blocks[k].line /\ \A l \in 1..(k - 1) : ~blocks[l].line} })
\* re.findall(r'\b(\d{3})\b'): every 3-digit token of the reply, in order
AreaCodeMatches(blocks) == [i \in 1..Len(blocks) |-> blocks[i].code]

\* lines 254-255 and 264-265: one result, written to the dict and the cache
Record(st, zip_code, area_code) ==
    [result |-> DictSet(st.result, zip_code, <<area_code>>),
     cache  |-> CacheSet(st.cache, zip_code, <<area_code>>),
     writes |-> Append(st.writes, CacheWrite(zip_code, <<area_code>>))]

\* lines 249-255 without the test of line 253: every listed ZIP is recorded,
\* st = [result, cache, writes]
RECURSIVE ParseSectionZips_NoFilter(_, _, _, _)
ParseSectionZips_NoFilter(area_code, zip_matches, uncached, st) ==
    IF zip_matches = <<>> THEN st
    ELSE Only({ ParseSectionZips_NoFilter(area_code, Tail(zip_matches), uncached, st2)
              : st2 \in {Record(st, Head(zip_matches), area_code)} })

\* lines 249-255: st = [result, cache, writes]
RECURSIVE ParseSectionZips(_, _, _, _)
ParseSectionZips(area_code, zip_matches, uncached, st) ==
    IF zip_matches = <<>> THEN st
    ELSE Only({ ParseSectionZips(area_code, Tail(zip_matches), uncached, st2)
              : st2 \in {IF Head(zip_matches) \in Range(uncached)
                         THEN Record(st, Head(zip_matches), area_code) ELSE st} })
RECURSIVE ParseSections(_, _, _)
ParseSections(sections, uncached, st) ==
    IF sections = <<>> THEN st
    ELSE Only({ ParseSections(Tail(sections), uncached, st2)
              : st2 \in {ParseSectionZips(Head(sections).code, Head(sections).zips,
                                          uncached, st)} })

\* lines 262-265: positional pairing of the 3-digit tokens
RECURSIVE PairPositionally(_, _, _, _)
PairPositionally(uncached, matches, i, st) ==
    IF i > Len(uncached) THEN st
    ELSE Only({ PairPositionally(uncached, matches, i + 1, st2)
              : st2 \in {IF i <= Len(matches)
                         THEN Record(st, uncached[i], matches[i]) ELSE st} })

\* lines 243-271 without the length test of line 261: the tokens are paired
\* with the ZIPs also when there are fewer tokens than ZIPs
ParseReply_NoLengthTest(c, uncached_zips, blocks) ==
    Only({ IF parsed.result = EmptyDict /\ AreaCodeMatches(blocks) # <<>>
           THEN PairPositionally(uncached_zips, AreaCodeMatches(blocks), 1, parsed)
           ELSE parsed
         : parsed \in {ParseSections(Sections(blocks), uncached_zips,
                                     [result |-> EmptyDict, cache |-> c,
                                      writes |-> <<>>])} })

\* lines 243-271: the reply parsed into the new results and the cache
ParseReply(c, uncached_zips, blocks) ==
    Only({ IF parsed.result = EmptyDict
              /\ AreaCodeMatches(blocks) # <<>>
              /\ Len(AreaCodeMatches(blocks)) >= Len(uncached_zips)
           THEN PairPositionally(uncached_zips, AreaCodeMatches(blocks), 1, parsed)
           ELSE parsed
         : parsed \in {ParseSections(Sections(blocks), uncached_zips,
                                     [result |-> EmptyDict, cache |-> c,
                                      writes |-> <<>>])} })

get_area_codes_batch_openai(c, key, zip_codes, reply) ==
    IF ~key \/ zip_codes = <<>>
    THEN [cache |-> c, result |-> EmptyDict, sent |-> <<>>, raised |-> FALSE,
          writes |-> <<>>]
    ELSE Only({
        IF uncached_zips = <<>>
        THEN [cache |-> c, result |-> cached_results, sent |-> <<>>, raised |-> FALSE,
              writes |-> <<>>]
        ELSE IF reply.kind = "raise"
        THEN [cache |-> c, result |-> EmptyDict, sent |-> <<uncached_zips>>, raised |-> FALSE,
              writes |-> <<>>]
        ELSE Only({ [cache |-> st.cache, result |-> DictMerge(cached_results, st.result),
                     sent |-> <<uncached_zips>>, raised |-> FALSE, writes |-> st.writes]
                  : st \in {ParseReply(c, uncached_zips, reply.blocks)} })
        : uncached_zips \in {UncachedZips(c, zip_codes)},
          cached_results \in {CachedResults(c, zip_codes, EmptyDict)} })

\* ---------------------------------------------------------- resolver
\* One entry of the call trace of a resolution: the function called, its
\* argument, the oracle requests it issued, what it returned and the cache
\* assignments it made.
CallEntry(fn, zs, sent, out, writes) ==
    [fn |-> fn, zips |-> zs, sent |-> sent, out |-> out, writes |-> writes]

\* lines 125-129: individual lookups for the ZIPs the batch did not return;
\* st = [cache, all, calls, raised], replies[z] is the oracle's reply for z
RECURSIVE FillMissing(_, _, _, _)
FillMissing(clean_zips, key, replies, st) ==
    IF clean_zips = <<>> \/ st.raised THEN st
    ELSE IF DictHas(st.all, Head(clean_zips))
    THEN FillMissing(Tail(clean_zips), key, replies, st)
    ELSE Only({ FillMissing(Tail(clean_zips), key, replies, st2)
              : st2 \in { [cache  |-> r.cache,
                           all    |-> IF r.value # <<>> /\ ~r.raised
                                      THEN DictSet(st.all, z, r.value) ELSE st.all,
                           calls  |-> Append(st.calls, CallEntry("lookupOne", <<z>>, r.sent, r.value, r.writes)),
                           raised |-> r.raised]
                         : z \in {Head(clean_zips)},
                           r \in {get_area_codes_for_zip(st.cache, key, Head(clean_zips),
                                                         replies[Head(clean_zips)])} } })

\* set.intersection(*[set(codes) for codes in all_area_codes.values()])
Intersection(d) ==
    {a \in Range(d[1].v) : \A i \in 1..Len(d) : a \in Range(d[i].v)}

\* lines 116-122 with the test len(clean_zips) >= 1: the batch lookup is
\* made for a single ZIP as well
BatchFirst_Always(c, key, zip_codes, batchReply) ==
    Only({ [cache |-> b.cache, all |-> b.result,
            calls |-> <<CallEntry("lookupBatch", zip_codes, b.sent, b.result, b.writes)>>,
            raised |-> b.raised]
         : b \in {get_area_codes_batch_openai(c, key, zip_codes, batchReply)} })

\* lines 116-122 with a retry: a batch lookup that returned nothing is
\* made a second time
BatchFirst_Retry(c, key, zip_codes, batchReply) ==
    IF Len(zip_codes) > 1
    THEN Only({ IF b.result # EmptyDict
                THEN [cache |-> b.cache, all |-> b.result,
                      calls |-> <<CallEntry("lookupBatch", zip_codes, b.sent, b.result, b.writes)>>,
                      raised |-> b.raised]
                ELSE Only({ [cache |-> b2.cache, all |-> b2.result,
                             calls |-> <<CallEntry("lookupBatch", zip_codes, b.sent, b.result, b.writes),
                                         CallEntry("lookupBatch", zip_codes, b2.sent, b2.result, b2.writes)>>,
                             raised |-> b2.raised]
                          : b2 \in {get_area_codes_batch_openai(b.cache, key, zip_codes, batchReply)} })
              : b \in {get_area_codes_batch_openai(c, key, zip_codes, batchReply)} })
    ELSE [cache |-> c, all |-> EmptyDict, calls |-> <<>>, raised |-> FALSE]

\* lines 116-122: the batch lookup, made for more than one ZIP
BatchFirst(c, key, zip_codes, batchReply) ==
    IF Len(zip_codes) > 1
    THEN Only({ [cache |-> b.cache, all |-> b.result,
                 calls |-> <<CallEntry("lookupBatch", zip_codes, b.sent, b.result, b.writes)>>,
                 raised |-> b.raised]
              : b \in {get_area_codes_batch_openai(c, key, zip_codes, batchReply)} })
    ELSE [cache |-> c, all |-> EmptyDict, calls |-> <<>>, raised |-> FALSE]

get_common_area_codes(c, key, zip_codes, batchReply, replies) ==
    IF zip_codes = <<>>
    THEN [cache |-> c, all |-> EmptyDict, common |-> <<>>, calls |-> <<>>, raised |-> FALSE]
    ELSE Only({
        IF st.raised
        THEN [cache |-> st.cache, all |-> EmptyDict, common |-> <<>>,
              calls |-> st.calls, raised |-> TRUE]
        ELSE IF st.all # EmptyDict
        THEN [cache |-> st.cache, all |-> st.all, common |-> Sorted(Intersection(st.all)),
              calls |-> st.calls, raised |-> FALSE]
        ELSE [cache |-> st.cache, all |-> EmptyDict, common |-> <<>>,
              calls |-> st.calls, raised |-> FALSE]
        : st \in { FillMissing(zip_codes, key, replies, st0)
                   : st0 \in {BatchFirst(c, key, zip_codes, batchReply)} } })

\* lines 171-181 with common_codes[1] for common_codes[0]: the second
\* common code is taken, and there is no area code when there is just one
BestOf_SecondCommon(all_area_codes, common_codes) ==
    IF Len(common_codes) >= 2 THEN Some(common_codes[2])
    ELSE IF common_codes = <<>> /\ all_area_codes # EmptyDict /\ all_area_codes[1].v # <<>>
    THEN Some(all_area_codes[1].v[1])
    ELSE None

\* lines 171-181 of get_best_area_code: the choice among the results
BestOf(all_area_codes, common_codes) ==
    IF common_codes # <<>> THEN Some(common_codes[1])
    ELSE IF all_area_codes # EmptyDict /\ all_area_codes[1].v # <<>>
    THEN Some(all_area_codes[1].v[1])
    ELSE None

get_best_area_code(c, key, zip_list, batchReply, replies) ==
    IF zip_list = <<>>
    THEN [cache |-> c, best |-> None, all |-> EmptyDict, common |-> <<>>,
          calls |-> <<>>, raised |-> FALSE]
    ELSE Only({ [cache |-> r.cache,
                 best  |-> IF r.raised THEN None ELSE BestOf(r.all, r.common),
                 all |-> r.all, common |-> r.common, calls |-> r.calls, raised |-> r.raised]
              : r \in {get_common_area_codes(c, key, zip_list, batchReply, replies)} })

\* ============================================= postal-code parsing
\* parse_zip_codes (src/area_code.py).  A text is a sequence of tokens: a
\* run of n digits (n = 5: the digits of a postal code of Zips; n = 4, 6: a
\* run that is no postal code), or one character of a class.  Adjacent
\* digit tokens form one longer run.  "space" stands for a whitespace
\* character, "punct" for a character such as '!' or '-'.
Digits(n, z) == [cls |-> "digit", n |-> n, zip |-> z]
Ch(cls) == [cls |-> cls, n |-> 1, zip |-> 0]
Atoms ==
    {Digits(5, z) : z \in Zips} \cup {Digits(4, 0), Digits(6, 0)}
    \cup {Ch(c) : c \in {"letter", "underscore", "space", "comma", "punct"}}
Texts == SeqsUpTo(Atoms, MaxAtoms)

\* \w of the regular expressions, and the class [\s\n\t;|]
IsWord(a) == a.cls \in {"digit", "letter", "underscore"}
IsSpace(a) == a.cls = "space"

\* str.strip()
RECURSIVE LStrip(_)
LStrip(t) == IF t # <<>> /\ IsSpace(Head(t)) THEN LStrip(Tail(t)) ELSE t
RECURSIVE RStrip(_)
RStrip(t) ==
    IF t # <<>> /\ IsSpace(t[Len(t)]) THEN RStrip(SubSeq(t, 1, Len(t) - 1)) ELSE t
Strip(t) == RStrip(LStrip(t))

\* An element of a list (Python list, or JSON array): a string, an integer
\* (text: its decimal form), integer 0, or None / null.
Str(t) == [type |-> "str", text |-> t]
Elems ==
    {Str(t) : t \in {<<>>, <<Ch("space")>>, <<Ch("letter")>>, <<Digits(4, 0)>>,
                     <<Digits(5, 75034)>>, <<Digits(5, 99999)>>,
                     <<Ch("space"), Digits(5, 75034), Ch("space")>>}}
    \cup {[type |-> "int", text |-> <<Digits(5, 75034)>>],
          [type |-> "zero", text |-> <<Digits(1, 0)>>],
          [type |-> "none", text |-> <<>>]}
\* bool(element)
Truthy(e) == (e.type = "str" /\ e.text # <<>>) \/ e.type = "int"

\* [str(zip_code).strip() for zip_code in zip_codes_input if zip_code]
RECURSIVE StripTruthy(_)
StripTruthy(items) ==
    IF items = <<>> THEN <<>>
    ELSE IF Truthy(Head(items))
    THEN <<Strip(Head(items).text)>> \o StripTruthy(Tail(items))
    ELSE StripTruthy(Tail(items))

\* re.sub(r'[\s\n\t;|]+', ',', text)
RECURSIVE Normalized(_)
Normalized(t) ==
    IF t = <<>> THEN <<>>
    ELSE IF IsSpace(Head(t)) THEN <<Ch("comma")>> \o Normalized(LStrip(t))
    ELSE <<Head(t)>> \o Normalized(Tail(t))

\* normalized.split(',')
RECURSIVE SplitComma(_, _)
SplitComma(t, item) ==
    IF t = <<>> THEN <<item>>
    ELSE IF Head(t).cls = "comma" THEN <<item>> \o SplitComma(Tail(t), <<>>)
    ELSE SplitComma(Tail(t), Append(item, Head(t)))

\* the pattern with (?<!\d) and (?!\d) for the two \b: a run of 5 digits
\* that is next to a letter or an underscore is matched as well
WordBounded_DigitBounded(item, i) ==
    /\ i > 1 => item[i - 1].cls # "digit"
    /\ i < Len(item) => item[i + 1].cls # "digit"

\* the two \b of r'\b\d{5}\b' around the token i of item
WordBounded(item, i) ==
    /\ i > 1 => ~IsWord(item[i - 1])
    /\ i < Len(item) => ~IsWord(item[i + 1])

\* re.findall(r'\b\d{5}\b', item): the matches, in order
RECURSIVE FindAll(_, _)
FindAll(item, i) ==
    IF i > Len(item) THEN <<>>
    ELSE IF item[i].cls = "digit" /\ item[i].n = 5 /\ WordBounded(item, i)
    THEN <<(<<item[i]>>)>> \o FindAll(item, i + 1)
    ELSE FindAll(item, i + 1)

\* lines 313-317 with zip_codes = matches for zip_codes.extend(matches):
\* only the matches of the last item are kept
ExtendAll_Assign(items) ==
    IF items = <<>> THEN <<>> ELSE FindAll(items[Len(items)], 1)

\* lines 313-317: zip_codes.extend(matches) for each item
RECURSIVE ExtendAll(_)
ExtendAll(items) ==
    IF items = <<>> THEN <<>> ELSE FindAll(Head(items), 1) \o ExtendAll(Tail(items))

\* list(set(zip_codes)): the elements, once each, in the order the hash
\* table yields them (any order)
ListOfSet(S) ==
    {q \in SeqsUpTo(S, Cardinality(S)) : Len(q) = Cardinality(S) /\ Range(q) = S}

\* The input of parse_zip_codes:
\*   form "list"  a Python list `items`
\*        "json"  a string that json.loads parses into the list `items`
\*        "text"  any other string, `text`
ListInput(items) == [form |-> "list", items |-> items, text |-> <<>>]
JsonInput(items) == [form |-> "json", items |-> items, text |-> <<>>]
TextInput(t) == [form |-> "text", items |-> <<>>, text |-> t]
ElemLists == SeqsUpTo(Elems, MaxElems)
ParseInputs ==
    {ListInput(l) : l \in ElemLists} \cup {JsonInput(l) : l \in ElemLists}
    \cup {TextInput(t) : t \in Texts}

\* parse_zip_codes: the set of lists it can return
parse_zip_codes(zip_codes_input) ==
    IF zip_codes_input.form = "list"
    THEN {StripTruthy(zip_codes_input.items)}
    ELSE IF zip_codes_input.form = "json"
    THEN {StripTruthy(zip_codes_input.items)}
    ELSE IF zip_codes_input.text = <<>>
    THEN {<<>>}
    ELSE ListOfSet(Range(ExtendAll(SplitComma(Normalized(zip_codes_input.text), <<>>))))

\* ===================================================== the state machine
VARIABLES
    cache,      \* _area_code_cache
    api_key,    \* openai.api_key is set (read once from the environment)
    pc,         \* "idle", "called" (a call is pending), "done" (it returned)
    call,       \* the pending call: function and argument
    ret,        \* what the completed call returned and did
    last,       \* the call completed just before, when it was a lookupOne
    selected_file,  \* phone_number in selected_phone_number.json, None: no file
    ppc,            \* "idle", "called" (a purchase is pending), "done"
    page,           \* the pending purchase: rendered rows, area code, fault
    pret,           \* what Phone_Number_Purchase returned and did
    plast,          \* the outcome of the run before, when this run repeats it
    zpc,            \* "idle", "called" (a parse is pending), "done"
    zin,            \* the input handed to parse_zip_codes
    zout,           \* the list parse_zip_codes returned
    wf,             \* per workflow: its get_area_codes_for_zip call in progress
    ghl,            \* the account, its calendars and its phone number
    opc,            \* "idle", "called" (an offboarding is pending), "done"
    cmd,            \* the pending /offboardclient command or --delete run
    oret,           \* what the offboarding did and returned
    spc,            \* "idle", "called" (a selection by criteria is pending), "done"
    table,          \* the pending selection: rendered rows and criteria
    sret            \* what select_phone_number_by_criteria returned and clicked

areaVars == <<cache, api_key, pc, call, ret, last>>
purchaseVars == <<selected_file, ppc, page, pret, plast>>
parseVars == <<zpc, zin, zout>>
lookupVars == <<wf>>
offboardVars == <<ghl, opc, cmd, oret>>
selectVars == <<spc, table, sret>>
vars == <<cache, api_key, pc, call, ret, last, selected_file, ppc, page, pret, plast,
          zpc, zin, zout, wf, ghl, opc, cmd, oret, spc, table, sret>>

NoCall == [op |-> "none", zips |-> <<>>]
NoRet ==
    [op |-> "none", zips |-> <<>>, before |-> <<>>, value |-> <<>>,
     result |-> EmptyDict, common |-> <<>>, best |-> None, calls |-> <<>>,
     sent |-> <<>>, raised |-> FALSE, degraded |-> FALSE,
     reply |-> [kind |-> "none", blocks |-> <<>>], writes |-> <<>>]
NoLast == [op |-> "none", zips |-> <<>>, value |-> <<>>, sent |-> <<>>]

\* A reply that carries no usable answer: transport failure, or a text with
\* neither a section header nor any 3-digit token.
DegradedOne(reply) == reply.kind = "raise" \/ reply.header = None
DegradedBatch(reply) == reply.kind = "raise" \/ reply.blocks = <<>>

RECURSIVE Flatten(_)
Flatten(ss) == IF ss = <<>> THEN <<>> ELSE Head(ss) \o Flatten(Tail(ss))
SentOf(calls) == Flatten([i \in 1..Len(calls) |-> calls[i].sent])
WritesOf(calls) == Flatten([i \in 1..Len(calls) |-> calls[i].writes])

AreaInit ==
    /\ cache = <<>>
    /\ api_key \in BOOLEAN
    /\ pc = "idle"
    /\ call = NoCall
    /\ ret = NoRet
    /\ last = NoLast

\* A caller invokes one of the three entry points.
Invoke ==
    /\ pc = "idle"
    /\ \/ \E z \in Zips :
            /\ call' = [op |-> "lookupOne", zips |-> <<z>>]
            /\ UNCHANGED last
       \/ \E zs \in ZipLists, op \in {"lookupBatch", "resolve"} :
            /\ call' = [op |-> op, zips |-> zs]
            /\ last' = NoLast
    /\ pc' = "called"
    /\ UNCHANGED <<cache, api_key, ret>>
    /\ UNCHANGED <<purchaseVars, parseVars, lookupVars, offboardVars, selectVars>>

\* get_area_codes_for_zip(zip_code), with the oracle's reply
LookupOne ==
    /\ pc = "called" /\ call.op = "lookupOne"
    /\ \E reply \in OneReplies :
        /\ (call.zips[1] \in DOMAIN cache \/ ~api_key) => reply = [kind |-> "raise", header |-> None]
        /\ \E r \in {get_area_codes_for_zip(cache, api_key, call.zips[1], reply)} :
               /\ cache' = r.cache
               /\ ret' = [NoRet EXCEPT !.op = "lookupOne", !.zips = call.zips,
                             !.before = cache, !.value = r.value, !.sent = r.sent,
                             !.raised = r.raised, !.writes = r.writes,
                             !.degraded = ~api_key \/ DegradedOne(reply)]
    /\ pc' = "done"
    /\ UNCHANGED <<api_key, call, last>>
    /\ UNCHANGED <<purchaseVars, parseVars, lookupVars, offboardVars, selectVars>>

\* get_area_codes_batch_openai(zip_codes), with the oracle's reply
LookupBatch ==
    /\ pc = "called" /\ call.op = "lookupBatch"
    /\ \E reply \in BatchReplies :
        /\ (Range(call.zips) \subseteq DOMAIN cache \/ ~api_key)
              => reply = [kind |-> "raise", blocks |-> <<>>]
        /\ \E r \in {get_area_codes_batch_openai(cache, api_key, call.zips, reply)} :
               /\ cache' = r.cache
               /\ ret' = [NoRet EXCEPT !.op = "lookupBatch", !.zips = call.zips,
                             !.before = cache, !.result = r.result, !.sent = r.sent,
                             !.raised = r.raised, !.writes = r.writes,
                             !.degraded = ~api_key \/ DegradedBatch(reply),
                             !.reply = reply]
    /\ pc' = "done"
    /\ UNCHANGED <<api_key, call, last>>
    /\ UNCHANGED <<purchaseVars, parseVars, lookupVars, offboardVars, selectVars>>

\* get_best_area_code(zip_list), with the oracle's reply to the batch
\* request and to the single request of each ZIP
Resolve ==
    /\ pc = "called" /\ call.op = "resolve"
    /\ \E batchReply \in BatchReplies, replies \in [Zips -> OneReplies] :
        /\ (Range(call.zips) \subseteq DOMAIN cache \/ ~api_key \/ Len(call.zips) <= 1)
              => batchReply = [kind |-> "raise", blocks |-> <<>>]
        /\ \A z \in Zips :
              (z \notin Range(call.zips) \/ z \in DOMAIN cache \/ ~api_key)
                 => replies[z] = [kind |-> "raise", header |-> None]
        /\ \E r \in {get_best_area_code(cache, api_key, call.zips, batchReply, replies)} :
               /\ cache' = r.cache
               /\ ret' = [NoRet EXCEPT !.op = "resolve", !.zips = call.zips,
                             !.before = cache, !.result = r.all, !.common = r.common,
                             !.best = r.best, !.calls = r.calls, !.sent = SentOf(r.calls),
                             !.raised = r.raised, !.writes = WritesOf(r.calls),
                             !.degraded = \/ ~api_key
                                          \/ /\ DegradedBatch(batchReply)
                                             /\ \A z \in Range(call.zips) : DegradedOne(replies[z])]
    /\ pc' = "done"
    /\ UNCHANGED <<api_key, call, last>>
    /\ UNCHANGED <<purchaseVars, parseVars, lookupVars, offboardVars, selectVars>>

\* The call returns to its caller.
Return ==
    /\ pc = "done"
    /\ pc' = "idle"
    /\ last' = IF ret.op = "lookupOne"
               THEN [op |-> "lookupOne", zips |-> ret.zips, value |-> ret.value, sent |-> ret.sent]
               ELSE NoLast
    /\ call' = NoCall
    /\ ret' = NoRet
    /\ UNCHANGED <<cache, api_key>>
    /\ UNCHANGED <<purchaseVars, parseVars, lookupVars, offboardVars, selectVars>>

AreaNext == Invoke \/ LookupOne \/ LookupBatch \/ Resolve \/ Return


\* ================================================ candidate selection
\* Phone_Number_Purchase (src/login_ghl.py) on the table the CRM renders.
\* A rendered row is
\*   kind   "phone"   its text holds "+1 <ac>-ddd-dddd"
\*          "garbled" its text holds "+1 <ac>" and digits, but not in the
\*                    form the phone-number pattern matches
\*          "header"  its text holds no "+1"
\*   marker the text also holds "Default Number" or "Current", or neither
\*   radio  the row holds a visible radio button
\* A row is identified by its position (1 = top-most), and the phone number
\* of a row by its area code and that position.
Markers == {"none", "Default Number", "Current"}
Rows ==
    {[kind |-> "phone", ac |-> a, marker |-> m, radio |-> r] :
        a \in AreaCodes, m \in Markers, r \in BOOLEAN}
    \cup {[kind |-> "garbled", ac |-> a, marker |-> "none", radio |-> r] :
        a \in AreaCodes, r \in BOOLEAN}
    \cup {[kind |-> "header", ac |-> a, marker |-> "none", radio |-> FALSE] :
        a \in {CHOOSE x \in AreaCodes : TRUE}}

\* the value of phone_number: a number read from a row, or one of the
\* placeholder strings "Unknown", "Existing", "Wrong Area"
Number(rows, i) == [kind |-> "number", ac |-> rows[i].ac, line |-> i]
Placeholder(name) == [kind |-> name, ac |-> 0, line |-> 0]

\* get_fresh_phone_data: the positions of the rows kept, in the order of
\* phone_rows (rows with the target area code are inserted at the front)
RECURSIVE FreshPhoneRows(_, _, _, _)
FreshPhoneRows(rows, area_code, i, phone_rows) ==
    IF i > Len(rows) THEN phone_rows
    ELSE LET row == rows[i]
         IN  IF row.kind # "header" /\ row.marker # "Default Number"
             THEN IF area_code # None /\ row.ac = area_code[1]
                  THEN FreshPhoneRows(rows, area_code, i + 1, <<i>> \o phone_rows)
                  ELSE FreshPhoneRows(rows, area_code, i + 1, Append(phone_rows, i))
             ELSE FreshPhoneRows(rows, area_code, i + 1, phone_rows)
get_fresh_phone_data(rows, area_code) == FreshPhoneRows(rows, area_code, 1, <<>>)

\* lines 526-546: phone_number as captured from the first row
CapturedPhoneNumber(rows, first_row, area_code) ==
    LET row == rows[first_row]
    IN  IF row.kind # "phone" THEN Placeholder("Unknown")
        ELSE IF row.marker \in {"Default Number", "Current"} THEN Placeholder("Existing")
        ELSE IF area_code # None /\ row.ac # area_code[1] THEN Placeholder("Wrong Area")
        ELSE Number(rows, first_row)

\* lines 603-762: the row whose radio button ends up clicked, if any.
\* Method 1 clicks the radio of first_row; no other row holds the text of
\* phone_number, so methods 2 and 3a find nothing, and methods 3b and 4
\* click the first visible radio button of the page.
ClickedRadio(rows, first_row, phone_number) ==
    IF phone_number.kind = "Unknown" THEN None
    ELSE IF rows[first_row].radio THEN Some(first_row)
    ELSE IF \E i \in 1..Len(rows) : rows[i].radio
    THEN Some(CHOOSE i \in 1..Len(rows) :
                 rows[i].radio /\ \A j \in 1..(i - 1) : ~rows[j].radio)
    ELSE None

\* lines 916-930: the fallback read of selected_phone_number.json
ReadSelectedFile(file) ==
    IF file = None THEN None
    ELSE IF file[1].kind # "Unknown" THEN file
    ELSE None

\* Phone_Number_Purchase with the result built before the file of lines
\* 590-593 is written: an 'Unknown' capture reads the file of an earlier run
Phone_Number_Purchase_StaleFileRead(file, rows, area_code, fails) ==
    IF area_code = None
    THEN [file |-> file, returned |-> "dict", selected |-> ReadSelectedFile(file),
          first_row |-> None, clicked |-> None, proceed |-> FALSE]
    ELSE IF fails \/ get_fresh_phone_data(rows, area_code) = <<>>
    THEN [file |-> file, returned |-> "None", selected |-> None,
          first_row |-> None, clicked |-> None, proceed |-> TRUE]
    ELSE Only({ [file |-> Some(phone_number), returned |-> "dict",
                 selected |-> IF phone_number.kind # "Unknown"
                              THEN Some(phone_number) ELSE ReadSelectedFile(file),
                 first_row |-> Some(first_row),
                 clicked |-> ClickedRadio(rows, first_row, phone_number),
                 proceed |-> TRUE]
              : first_row \in {get_fresh_phone_data(rows, area_code)[1]},
                phone_number \in {CapturedPhoneNumber(rows,
                                     get_fresh_phone_data(rows, area_code)[1], area_code)} })

\* lines 771-773 with proceed_anyway = False: the purchase stops when no
\* radio button was clicked
ProceedToBuy_StopWithoutRadio(radio_clicked) == radio_clicked

\* lines 771-773: proceed_anyway = True; if radio_clicked or proceed_anyway
ProceedToBuy(radio_clicked) == radio_clicked \/ TRUE

\* Phone_Number_Purchase from the capture of the first row on.  `file` is
\* the phone_number stored in selected_phone_number.json (None: no file),
\* `fails` says that reading the page raises (stale element).  Result:
\*   returned  "dict" or "None" (an exception reached the outer handler)
\*   selected  result["selected_phone_number"]["phone_number"], if any
\*   clicked   the row whose radio button was clicked, if any
\*   proceed   "Proceed to Buy" was attempted
Phone_Number_Purchase(file, rows, area_code, fails) ==
    IF area_code = None
    THEN \* the capture block is skipped; the result is read from the file
         [file |-> file, returned |-> "dict", selected |-> ReadSelectedFile(file),
          first_row |-> None, clicked |-> None, proceed |-> FALSE]
    ELSE IF fails
    THEN \* selected_number_info is the error dict: it has no 'phone_number'
         [file |-> file, returned |-> "None", selected |-> None,
          first_row |-> None, clicked |-> None, proceed |-> ProceedToBuy(FALSE)]
    ELSE
    LET phone_rows == get_fresh_phone_data(rows, area_code)
    IN  IF phone_rows = <<>>
        THEN \* selected_number_info stays {}: it has no 'phone_number'
             [file |-> file, returned |-> "None", selected |-> None,
              first_row |-> None, clicked |-> None, proceed |-> ProceedToBuy(FALSE)]
        ELSE
        LET first_row == phone_rows[1]
            phone_number == CapturedPhoneNumber(rows, first_row, area_code)
            written == Some(phone_number)
        IN  [file |-> written, returned |-> "dict",
             selected |-> IF phone_number.kind # "Unknown"
                          THEN Some(phone_number) ELSE ReadSelectedFile(written),
             first_row |-> Some(first_row),
             clicked |-> ClickedRadio(rows, first_row, phone_number),
             proceed |-> ProceedToBuy(ClickedRadio(rows, first_row, phone_number) # None)]

NoPage == [rows |-> <<>>, area_code |-> None, fails |-> FALSE, on |-> FALSE]
NoPret == [returned |-> "none", selected |-> None, first_row |-> None,
           clicked |-> None, proceed |-> FALSE]
NoPlast == [on |-> FALSE, returned |-> "none", selected |-> None, clicked |-> None]

PurchaseInit ==
    /\ selected_file = None
    /\ ppc = "idle"
    /\ page = NoPage
    /\ pret = NoPret
    /\ plast = NoPlast

RowLists == SeqsUpTo(Rows, MaxRows)

\* The onboarding workflow calls Phone_Number_Purchase and the CRM renders
\* the table of candidates.  Without an area code, and when reading the page
\* fails, the rows are never looked at.
RenderPage ==
    /\ ppc = "idle"
    /\ \/ \E rows \in RowLists, a \in AreaCodes :
            page' = [rows |-> rows, area_code |-> Some(a), fails |-> FALSE, on |-> TRUE]
       \/ \E a \in AreaCodes :
            page' = [rows |-> <<>>, area_code |-> Some(a), fails |-> TRUE, on |-> TRUE]
       \/ page' = [rows |-> <<>>, area_code |-> None, fails |-> FALSE, on |-> TRUE]
    /\ ppc' = "called"
    /\ UNCHANGED <<selected_file, pret, plast>>
    /\ UNCHANGED <<areaVars, parseVars, lookupVars, offboardVars, selectVars>>

PurchaseNumber ==
    /\ ppc = "called"
    /\ \E r \in {Phone_Number_Purchase(selected_file, page.rows, page.area_code, page.fails)} :
           /\ selected_file' = r.file
           /\ pret' = [returned |-> r.returned, selected |-> r.selected,
                       first_row |-> r.first_row, clicked |-> r.clicked,
                       proceed |-> r.proceed]
    /\ ppc' = "done"
    /\ UNCHANGED <<page, plast>>
    /\ UNCHANGED <<areaVars, parseVars, lookupVars, offboardVars, selectVars>>

\* The caller takes the result; the browser session ends.
PurchaseReturn ==
    /\ ppc = "done"
    /\ ppc' = "idle"
    /\ page' = NoPage
    /\ pret' = NoPret
    /\ plast' = NoPlast
    /\ UNCHANGED selected_file
    /\ UNCHANGED <<areaVars, parseVars, lookupVars, offboardVars, selectVars>>

\* The caller takes the result and the workflow runs once more in the same
\* process, with the same target, while the CRM renders the same table.
PurchaseAgain ==
    /\ ppc = "done"
    /\ ppc' = "called"
    /\ plast' = [on |-> TRUE, returned |-> pret.returned, selected |-> pret.selected,
                 clicked |-> pret.clicked]
    /\ pret' = NoPret
    /\ UNCHANGED <<selected_file, page>>
    /\ UNCHANGED <<areaVars, parseVars, lookupVars, offboardVars, selectVars>>

PurchaseNext == RenderPage \/ PurchaseNumber \/ PurchaseReturn \/ PurchaseAgain

\* ------------------------------------------------ parsing postal codes
NoInput == [form |-> "none", items |-> <<>>, text |-> <<>>]

ParseInit ==
    /\ zpc = "idle"
    /\ zin = NoInput
    /\ zout = <<>>

\* A caller hands an input to parse_zip_codes.
ParseCall ==
    /\ zpc = "idle"
    /\ \E input \in ParseInputs : zin' = input
    /\ zpc' = "called"
    /\ UNCHANGED zout
    /\ UNCHANGED <<areaVars, purchaseVars, lookupVars, offboardVars, selectVars>>

ParseZipCodes ==
    /\ zpc = "called"
    /\ \E out \in parse_zip_codes(zin) : zout' = out
    /\ zpc' = "done"
    /\ UNCHANGED zin
    /\ UNCHANGED <<areaVars, purchaseVars, lookupVars, offboardVars, selectVars>>

ParseReturn ==
    /\ zpc = "done"
    /\ zpc' = "idle"
    /\ zin' = NoInput
    /\ zout' = <<>>
    /\ UNCHANGED <<areaVars, purchaseVars, lookupVars, offboardVars, selectVars>>

ParseNext == ParseCall \/ ParseZipCodes \/ ParseReturn

\* ================================================ concurrent lookups
\* Two onboarding workflows of one process call get_area_codes_for_zip on
\* the shared _area_code_cache.  A step is one statement of the function:
\* the cache test, the oracle request, the cache assignment.
Workflows == {"w1", "w2"}
Idle == [pc |-> "idle", zip |-> 0, value |-> <<>>, sent |-> <<>>, hit |-> FALSE]

LookupInit == wf = [w \in Workflows |-> Idle]

\* workflow w enters get_area_codes_for_zip(zip_code)
LookupStart(w) ==
    /\ wf[w].pc = "idle"
    /\ \E z \in Zips : wf' = [wf EXCEPT ![w] = [Idle EXCEPT !.pc = "test", !.zip = z]]
    /\ UNCHANGED <<areaVars, purchaseVars, parseVars, offboardVars, selectVars>>

\* lines 80-82 without the cache test: the oracle is always asked
LookupTest_NoCacheTest(w) ==
    /\ wf[w].pc = "test"
    /\ wf' = [wf EXCEPT ![w].pc = "ask"]
    /\ UNCHANGED <<areaVars, purchaseVars, parseVars, offboardVars, selectVars>>

\* lines 80-82: the cache test, and the return of the cached entry
LookupTest(w) ==
    /\ wf[w].pc = "test"
    /\ wf' = IF wf[w].zip \in DOMAIN cache
             THEN [wf EXCEPT ![w].pc = "done", ![w].value = cache[wf[w].zip],
                             ![w].hit = TRUE]
             ELSE [wf EXCEPT ![w].pc = "ask"]
    /\ UNCHANGED <<areaVars, purchaseVars, parseVars, offboardVars, selectVars>>

\* line 86: the oracle request of this workflow and its reply
LookupAsk(w) ==
    /\ wf[w].pc = "ask"
    /\ \E reply \in OneReplies :
        /\ ~api_key => reply = [kind |-> "raise", header |-> None]
        /\ \E r \in {get_area_codes_for_zip_openai(api_key, wf[w].zip, reply)} :
               wf' = [wf EXCEPT ![w].pc = "store", ![w].value = r.value,
                                ![w].sent = wf[w].sent \o r.sent]
    /\ UNCHANGED <<areaVars, purchaseVars, parseVars, offboardVars, selectVars>>

\* lines 87-93: the cache assignment (of the empty list too) and the return
LookupStore(w) ==
    /\ wf[w].pc = "store"
    /\ cache' = CacheSet(cache, wf[w].zip, wf[w].value)
    /\ wf' = [wf EXCEPT ![w].pc = "done"]
    /\ UNCHANGED <<api_key, pc, call, ret, last>>
    /\ UNCHANGED <<purchaseVars, parseVars, offboardVars, selectVars>>

\* the caller of workflow w takes the value
LookupReturn(w) ==
    /\ wf[w].pc = "done"
    /\ wf' = [wf EXCEPT ![w] = Idle]
    /\ UNCHANGED <<areaVars, purchaseVars, parseVars, offboardVars, selectVars>>

LookupStep(w) == LookupTest(w) \/ LookupAsk(w) \/ LookupStore(w) \/ LookupReturn(w)
LookupNext == \E w \in Workflows : LookupStart(w) \/ LookupStep(w)

\* ======================================================== offboarding
\* src/get_users.py: the /offboardclient Slack command and the --delete run
\* of the command line.  The account of the client is known by one e-mail
\* address; `ghl` is what the remote services hold for it.
Calendars == 1..MaxCalendars
UserEmail == "alice@example.com"
AUTHORIZED_USERS == {"U08MN3MGKRN", "U08EFGBJST0", "U08LVQBDF0E", "U08PPJ3AXE0"}
SlackUsers == {"U08PPJ3AXE0", "U00000000"}
\* body["text"]: its first word, and whether that word holds an "@"
Texts_Offboard ==
    {[email |-> "", at |-> FALSE], [email |-> "alice", at |-> FALSE],
     [email |-> UserEmail, at |-> TRUE], [email |-> "nobody@example.com", at |-> TRUE]}
\* phone: "none" no lcPhone on the account, "held" the number is on the
\* Twilio account, "released" it was released
Worlds == [user : BOOLEAN, calendars : SUBSET Calendars, phone : {"none", "held", "released"}]
\* what the remote services answer: the token flow, GET /users/, GET
\* /calendars/, DELETE /calendars/{id} (failing for the ids in `failing`),
\* the Twilio release, DELETE /users/{id}, and the Slack posts
Envs ==
    [oauth : BOOLEAN, users_api : BOOLEAN, calendars_api : BOOLEAN,
     failing : SUBSET Calendars, release : BOOLEAN, delete : BOOLEAN, slack : BOOLEAN]
Op(op, arg, ok) == [op |-> op, arg |-> arg, ok |-> ok]

\* lines 511-516: delete_calendar for each calendar; st = [world, ops]
RECURSIVE DeleteCalendars(_, _, _)
DeleteCalendars(calendars, env, st) ==
    IF calendars = <<>> THEN st
    ELSE Only({ DeleteCalendars(Tail(calendars), env, st2)
              : st2 \in { [world |-> IF ok THEN [st.world EXCEPT !.calendars = @ \ {c}]
                                     ELSE st.world,
                           ops   |-> Append(st.ops, Op("delete_calendar", c, ok))]
                         : c \in {Head(calendars)},
                           ok \in {Head(calendars) \notin env.failing} } })

\* lines 521-525 and release_phone_number: the number is released when
\* Twilio still lists it and the release succeeds
ReleasePhone(env, st) ==
    Only({ [world |-> IF ok THEN [st.world EXCEPT !.phone = "released"] ELSE st.world,
            ops   |-> Append(st.ops, Op("release_phone", 0, ok))]
         : ok \in {st.world.phone = "held" /\ env.release} })

\* lines 528-533 and delete_user
DeleteUser(env, st) ==
    Only({ [world |-> IF ok THEN [st.world EXCEPT !.user = FALSE] ELSE st.world,
            ops   |-> Append(st.ops, Op("delete_user", 0, ok))]
         : ok \in {env.delete} })

\* delete_user_and_calendars(oauth_client, email, confirm, release_phone);
\* `confirmation` is the answer typed at the prompt
delete_user_and_calendars(w, email, confirm, confirmation, release_phone, env) ==
    IF ~(env.users_api /\ w.user /\ email = UserEmail)
    THEN [world |-> w, result |-> FALSE, ops |-> <<Op("find_user", 0, FALSE)>>]
    ELSE IF confirm /\ ~confirmation
    THEN [world |-> w, result |-> FALSE, ops |-> <<Op("find_user", 0, TRUE)>>]
    ELSE Only({ [world |-> s3.world, result |-> s3.ops[Len(s3.ops)].ok, ops |-> s3.ops]
              : s3 \in { DeleteUser(env, s2)
                  : s2 \in { IF release_phone /\ w.phone # "none"
                             THEN ReleasePhone(env, s1) ELSE s1
                      : s1 \in { DeleteCalendars(
                                    IF env.calendars_api THEN Sorted(w.calendars) ELSE <<>>,
                                    env,
                                    [world |-> w,
                                     ops |-> <<Op("find_user", 0, TRUE),
                                               Op("list_calendars", 0, env.calendars_api)>>]) } } } })

\* lines 669-723: the token flow, the offboarding, and the messages
Offboard(w, body, env, ops) ==
    Only({ [world |-> d.world, result |-> Some(d.result),
            ops |-> ops \o d.ops \o <<Op("ephemeral_result", 0, env.slack)>>
                    \o (IF d.result THEN <<Op("public", 0, env.slack)>> ELSE <<>>)]
         : d \in { IF env.oauth
                   THEN delete_user_and_calendars(w, body.text.email, FALSE, FALSE, TRUE, env)
                   ELSE [world |-> w, result |-> FALSE, ops |-> <<>>] } })

\* handle_offboard without the test of line 626: every Slack user is served
handle_offboard_NoAuthorization(w, body, env) ==
    IF body.text.email = "" \/ ~body.text.at
    THEN [world |-> w, result |-> None,
          ops |-> <<Op("ack", 0, TRUE), Op("ephemeral_invalid", 0, env.slack)>>]
    ELSE Offboard(w, body, env,
                  <<Op("ack", 0, TRUE), Op("ephemeral_processing", 0, env.slack),
                    Op("oauth", 0, env.oauth)>>)

\* handle_offboard(ack, body, client)
handle_offboard(w, body, env) ==
    IF body.user_id \notin AUTHORIZED_USERS
    THEN [world |-> w, result |-> None,
          ops |-> <<Op("ack", 0, TRUE), Op("ephemeral_unauthorized", 0, env.slack)>>]
    ELSE IF body.text.email = "" \/ ~body.text.at
    THEN [world |-> w, result |-> None,
          ops |-> <<Op("ack", 0, TRUE), Op("ephemeral_invalid", 0, env.slack)>>]
    ELSE Offboard(w, body, env,
                  <<Op("ack", 0, TRUE), Op("ephemeral_processing", 0, env.slack),
                    Op("oauth", 0, env.oauth)>>)

NoCmd ==
    [via |-> "none", user_id |-> "", text |-> [email |-> "", at |-> FALSE],
     force |-> FALSE, keep_phone |-> FALSE, confirmation |-> FALSE]
NoOret == [via |-> "none", result |-> None, ops |-> <<>>, before |-> <<>>,
           release_phone |-> FALSE]

NoAccount == [user |-> FALSE, calendars |-> {}, phone |-> "none"]

OffboardInit ==
    /\ ghl = NoAccount
    /\ opc = "idle"
    /\ cmd = NoCmd
    /\ oret = NoOret

\* the onboarding creates the account of the client, with its calendars
\* and, when a number could be bought, its phone number
OnboardClient ==
    /\ opc = "idle" /\ ~ghl.user
    /\ ghl' \in {w \in Worlds : w.user /\ w.phone # "released"}
    /\ UNCHANGED <<opc, cmd, oret>>
    /\ UNCHANGED <<areaVars, purchaseVars, parseVars, lookupVars, selectVars>>

\* a Slack user issues /offboardclient <text>
SlackCommand ==
    /\ opc = "idle"
    /\ \E u \in SlackUsers, t \in Texts_Offboard :
          cmd' = [NoCmd EXCEPT !.via = "slack", !.user_id = u, !.text = t]
    /\ opc' = "called"
    /\ UNCHANGED <<ghl, oret>>
    /\ UNCHANGED <<areaVars, purchaseVars, parseVars, lookupVars, selectVars>>

\* an operator runs the script with --delete <email> [--force] [--keep-phone]
DeleteRun ==
    /\ opc = "idle"
    /\ \E t \in {x \in Texts_Offboard : x.at}, force, keep_phone, confirmation \in BOOLEAN :
          /\ force => ~confirmation
          /\ cmd' = [NoCmd EXCEPT !.via = "cli", !.text = t, !.force = force,
                                  !.keep_phone = keep_phone, !.confirmation = confirmation]
    /\ opc' = "called"
    /\ UNCHANGED <<ghl, oret>>
    /\ UNCHANGED <<areaVars, purchaseVars, parseVars, lookupVars, selectVars>>

\* the handler of the Slack command runs
HandleOffboard ==
    /\ opc = "called" /\ cmd.via = "slack"
    /\ \E env \in Envs :
          \E r \in {handle_offboard(ghl, cmd, env)} :
              /\ ghl' = r.world
              /\ oret' = [via |-> "slack", result |-> r.result, ops |-> r.ops,
                          before |-> ghl, release_phone |-> TRUE]
    /\ opc' = "done"
    /\ UNCHANGED cmd
    /\ UNCHANGED <<areaVars, purchaseVars, parseVars, lookupVars, selectVars>>

\* main() with --delete: the token flow, then delete_user_and_calendars
MainDelete ==
    /\ opc = "called" /\ cmd.via = "cli"
    /\ \E env \in Envs :
          \E r \in { IF env.oauth
                     THEN delete_user_and_calendars(ghl, cmd.text.email, ~cmd.force,
                                                    cmd.confirmation, ~cmd.keep_phone, env)
                     ELSE [world |-> ghl, result |-> FALSE, ops |-> <<>>] } :
              /\ ghl' = r.world
              /\ oret' = [via |-> "cli",
                          result |-> IF env.oauth THEN Some(r.result) ELSE None,
                          ops |-> <<Op("oauth", 0, env.oauth)>> \o r.ops,
                          before |-> ghl, release_phone |-> ~cmd.keep_phone]
    /\ opc' = "done"
    /\ UNCHANGED cmd
    /\ UNCHANGED <<areaVars, purchaseVars, parseVars, lookupVars, selectVars>>

\* the command is over
OffboardReturn ==
    /\ opc = "done"
    /\ opc' = "idle"
    /\ cmd' = NoCmd
    /\ oret' = NoOret
    /\ UNCHANGED ghl
    /\ UNCHANGED <<areaVars, purchaseVars, parseVars, lookupVars, selectVars>>

OffboardNext ==
    OnboardClient \/ SlackCommand \/ DeleteRun \/ HandleOffboard \/ MainDelete \/ OffboardReturn

\* ================================================ selection by criteria
\* capture_all_phone_numbers and select_phone_number_by_criteria
\* (src/login_ghl.py) on the rows of "tbody tr".  A row is
\*   phone  it holds the phoneNumber cell (a row without it is skipped)
\*   radio  it holds a radio button
\*   price  the dollars of its price cell, 0: no price cell ('Unknown')
Candidates ==
    {[phone |-> TRUE, ac |-> a, radio |-> r, price |-> p] :
        a \in AreaCodes, r \in BOOLEAN, p \in 0..2}
    \cup {[phone |-> FALSE, ac |-> a, radio |-> FALSE, price |-> 0] :
        a \in {CHOOSE x \in AreaCodes : TRUE}}
CandidateLists == SeqsUpTo(Candidates, MaxCandidates)
\* the criteria used: none, or {'price': 'lowest'}
Criteria == {"none", "lowest"}

\* capture_all_phone_numbers: one phone_data per row with a phone number;
\* row_index and radio_index are the index i of enumerate(phone_rows)
RECURSIVE CaptureRows(_, _)
CaptureRows(rows, i) ==
    IF i > Len(rows) THEN <<>>
    ELSE IF ~rows[i].phone THEN CaptureRows(rows, i + 1)
    ELSE <<[row_index |-> i - 1, selectable |-> rows[i].radio,
            radio_index |-> IF rows[i].radio THEN Some(i - 1) ELSE None,
            price |-> rows[i].price]>> \o CaptureRows(rows, i + 1)
capture_all_phone_numbers(rows) == CaptureRows(rows, 1)

\* driver.find_elements(By.CSS_SELECTOR, "input[type='radio']"): the radio
\* buttons of the page in document order, each named by the row it is in
RadioButtons(rows) == Sorted({i \in 1..Len(rows) : rows[i].radio})

\* lines 1128-1131: float of the price text, 999.99 for 'Unknown'
PriceValue(num) == IF num.price = 0 THEN 999 ELSE num.price
\* min(selectable_numbers, key=price_value): the first of the cheapest
MinByPrice(nums) ==
    nums[CHOOSE i \in 1..Len(nums) :
            /\ \A j \in 1..Len(nums) : PriceValue(nums[i]) <= PriceValue(nums[j])
            /\ \A j \in 1..(i - 1) : PriceValue(nums[j]) > PriceValue(nums[i])]
IsSelectable(num) == num.selectable

\* select_phone_number_by_criteria(driver, all_numbers, criteria) on the
\* page `rows`; click_fails: the click raises.  Result:
\*   returned  the phone_data returned, if any
\*   clicked   the row whose radio button was clicked, if any
\*   file      selected_phone_number.json afterwards
select_phone_number_by_criteria(file, rows, all_numbers, criteria, click_fails) ==
    IF SelectSeq(all_numbers, IsSelectable) = <<>>
    THEN [file |-> file, returned |-> None, clicked |-> None]
    ELSE Only({
        IF selected_number.radio_index[1] < Len(radio_buttons) /\ ~click_fails
        THEN [file |-> Some(Number(rows, selected_number.row_index + 1)),
              returned |-> Some(selected_number),
              clicked |-> Some(radio_buttons[selected_number.radio_index[1] + 1])]
        ELSE [file |-> file, returned |-> None, clicked |-> None]
        : selected_number \in { IF criteria = "lowest"
                                THEN MinByPrice(SelectSeq(all_numbers, IsSelectable))
                                ELSE SelectSeq(all_numbers, IsSelectable)[1] },
          radio_buttons \in {RadioButtons(rows)} })

NoTable == [rows |-> <<>>, criteria |-> "none", on |-> FALSE]
NoSret == [returned |-> None, clicked |-> None]

SelectInit ==
    /\ spc = "idle"
    /\ table = NoTable
    /\ sret = NoSret

\* the CRM renders the table of available numbers
RenderCandidates ==
    /\ spc = "idle"
    /\ \E rows \in CandidateLists, c \in Criteria :
          table' = [rows |-> rows, criteria |-> c, on |-> TRUE]
    /\ spc' = "called"
    /\ UNCHANGED sret
    /\ UNCHANGED <<areaVars, purchaseVars, parseVars, lookupVars, offboardVars>>

\* the table is captured and a number is selected from the capture
SelectNumber ==
    /\ spc = "called"
    /\ \E click_fails \in BOOLEAN :
        /\ (\A i \in 1..Len(table.rows) : ~table.rows[i].radio) => ~click_fails
        /\ \E r \in {select_phone_number_by_criteria(
                         selected_file, table.rows,
                         capture_all_phone_numbers(table.rows), table.criteria,
                         click_fails)} :
               /\ selected_file' = r.file
               /\ sret' = [returned |-> r.returned, clicked |-> r.clicked]
    /\ spc' = "done"
    /\ UNCHANGED table
    /\ UNCHANGED <<ppc, page, pret, plast>>
    /\ UNCHANGED <<areaVars, parseVars, lookupVars, offboardVars>>

\* the caller takes the selected number
SelectReturn ==
    /\ spc = "done"
    /\ spc' = "idle"
    /\ table' = NoTable
    /\ sret' = NoSret
    /\ UNCHANGED <<areaVars, purchaseVars, parseVars, lookupVars, offboardVars>>

SelectNext == RenderCandidates \/ SelectNumber \/ SelectReturn

Init == AreaInit /\ PurchaseInit /\ ParseInit /\ LookupInit /\ OffboardInit /\ SelectInit
Spec == Init /\ [][AreaNext]_vars
PurchaseSpec == Init /\ [][PurchaseNext]_vars
ParseSpec == Init /\ [][ParseNext]_vars
LookupSpec == Init /\ [][LookupNext]_vars
OffboardSpec == Init /\ [][OffboardNext]_vars
SelectSpec == Init /\ [][SelectNext]_vars
\* a workflow that entered the function runs on: each statement terminates
\* (the oracle request returns or raises)
FairLookupSpec == LookupSpec /\ \A w \in Workflows : WF_vars(LookupStep(w))

\* ============================================== properties: area codes
\* the area-code list a postal code has resolved to, as the process knows it
Resolved(z) == IF z \in DOMAIN cache THEN cache[z] ELSE <<>>
ResolveDone == pc = "done" /\ ret.op = "resolve"

\* C1: after resolve on a non-empty input, commonAreaCodes is the sorted
\* intersection of the area-code lists of ALL input postal codes (so it is
\* empty as soon as one input postal code has no area code).
C1_CommonIsIntersectionOfAll ==
    (ResolveDone /\ ret.zips # <<>>) =>
        ret.common = Sorted({a \in AreaCodes : \A z \in Range(ret.zips) : a \in Range(Resolved(z))})

\* C2: after resolve, when commonAreaCodes is empty and some input postal
\* code resolved to an area code, bestAreaCode is the first area code of the
\* first postal code of the mapping; bestAreaCode is none only when no input
\* postal code resolved to any area code.
C2_BestFallsBackToFirstResolved ==
    ResolveDone =>
        /\ (ret.common = <<>> /\ \E z \in Range(ret.zips) : Resolved(z) # <<>>) =>
              /\ ret.best # None
              /\ ret.result # EmptyDict
              /\ ret.result[1].v # <<>>
              /\ ret.best = Some(ret.result[1].v[1])
        /\ ret.best = None => \A z \in Range(ret.zips) : Resolved(z) = <<>>

\* C6 (as claimed): after any lookupOne or lookupBatch, every requested
\* postal code that ended with no area code has the empty result in the cache.
NoAreaCodeFor(p) ==
    IF ret.op = "lookupOne" THEN ret.value = <<>>
    ELSE ~DictHas(ret.result, p) \/ DictGet(ret.result, p) = <<>>
C6_AnyLookupCachesEmptyResult ==
    (pc = "done" /\ ret.op \in {"lookupOne", "lookupBatch"}) =>
        \A p \in Range(ret.zips) :
            NoAreaCodeFor(p) => (p \in DOMAIN cache /\ cache[p] = <<>>)

\* C6 (amended): after a lookupOne that ended with no area code the cache
\* holds the empty result for its postal code, and a postal code whose cache
\* entry is empty is not part of any oracle request of a later call.
C6_LookupOneCachesEmptyResult ==
    /\ [](  (pc = "done" /\ ret.op = "lookupOne" /\ ret.value = <<>>) =>
               (ret.zips[1] \in DOMAIN cache /\ cache[ret.zips[1]] = <<>>))
    /\ [][ \A p \in DOMAIN cache : cache[p] = <<>> =>
               \A i \in 1..Len(ret'.sent) : p \notin Range(ret'.sent[i]) ]_vars
C6_Witness ==
    /\ pc = "done" /\ ret.op = "lookupBatch" /\ Len(ret.sent) = 1
    /\ \E p \in Range(ret.zips) : p \in DOMAIN ret.before /\ ret.before[p] = <<>>

\* C7: two lookupOne calls in succession for the same postal code issue at
\* most one oracle request in total, and the second returns what the first
\* returned.
C7_SecondLookupServedFromCache ==
    (pc = "done" /\ ret.op = "lookupOne" /\ last.op = "lookupOne" /\ last.zips = ret.zips) =>
        /\ Len(last.sent) + Len(ret.sent) <= 1
        /\ ret.value = last.value
C7_Witness ==
    /\ pc = "done" /\ ret.op = "lookupOne" /\ last.op = "lookupOne" /\ last.zips = ret.zips
    /\ Len(last.sent) = 1 /\ ret.sent = <<>> /\ ret.value = <<>>

\* C8: a lookupBatch call (direct, or the one resolve makes) issues at most
\* one oracle request; the request lists exactly the requested postal codes
\* that were not cached, and none is issued when all of them were cached.
BatchRequestsOk(zs, sent) ==
    /\ Len(sent) <= 1
    /\ \A i \in 1..Len(sent) : Range(sent[i]) = Range(zs) \ DOMAIN ret.before
    /\ Range(zs) \subseteq DOMAIN ret.before => sent = <<>>
C8_BatchSendsExactlyUncached ==
    /\ (pc = "done" /\ ret.op = "lookupBatch") => BatchRequestsOk(ret.zips, ret.sent)
    /\ ResolveDone =>
          \A j \in 1..Len(ret.calls) :
              ret.calls[j].fn = "lookupBatch" => BatchRequestsOk(ret.calls[j].zips, ret.calls[j].sent)
C8_Witness ==
    /\ pc = "done" /\ ret.op = "lookupBatch" /\ Len(ret.sent) = 1
    /\ Range(ret.zips) \cap DOMAIN ret.before # {}

\* C9: no lookup and no resolution raises; with a missing credential, a
\* transport failure or a reply without any answer, a call on postal codes
\* that were not cached returns the empty list / mapping / no best area code.
C9_DegradedOracleYieldsEmptyValue ==
    pc = "done" =>
        /\ ~ret.raised
        /\ (ret.degraded /\ Range(ret.zips) \cap DOMAIN ret.before = {}) =>
              (ret.value = <<>> /\ ret.result = EmptyDict /\ ret.best = None)
C9_Witness ==
    /\ ResolveDone /\ api_key /\ ret.degraded /\ Len(ret.sent) >= 2
    /\ ~ret.raised /\ ret.best = None

\* ======================================== properties: candidate selection
SetMin(S) == CHOOSE x \in S : \A y \in S : x <= y
\* a candidate that may be bought: a phone row that is not marked as an
\* existing number and can be selected
Eligible(row) == row.kind = "phone" /\ row.marker = "none" /\ row.radio
EligibleRows == {i \in 1..Len(page.rows) : Eligible(page.rows[i])}
MatchingRows == {i \in EligibleRows : page.rows[i].ac = page.area_code[1]}
SelectionDone == ppc = "done" /\ page.area_code # None /\ ~page.fails

\* C3: with a target area code, whenever one or more eligible rows have the
\* target area code, the row selected is the matching row with the lowest
\* position.
C3_LowestMatchingRowSelected ==
    (SelectionDone /\ MatchingRows # {}) =>
        /\ pret.clicked = Some(SetMin(MatchingRows))
        /\ pret.selected = Some(Number(page.rows, SetMin(MatchingRows)))

\* C4: a row marked "Default Number" or "Current" is never the one whose
\* radio button is clicked, and its number is never returned as selected.
C4_ExistingNumberNeverSelected ==
    ppc = "done" =>
        /\ pret.clicked # None => page.rows[pret.clicked[1]].marker = "none"
        /\ (page.area_code # None /\ pret.selected # None
               /\ pret.selected[1].kind = "number") =>
              page.rows[pret.selected[1].line].marker = "none"

\* C5: when eligible rows exist and none has the target area code, the
\* eligible row with the lowest position is selected and the result carries
\* the phone number of that row.
C5_FallbackKeepsRealNumber ==
    (SelectionDone /\ EligibleRows # {} /\ MatchingRows = {}) =>
        /\ pret.clicked = Some(SetMin(EligibleRows))
        /\ pret.selected = Some(Number(page.rows, SetMin(EligibleRows)))

\* C10: a malformed row is skipped: when all rows but one are malformed and
\* the remaining row is eligible and comes later, that row is selected.
C10_MalformedRowSkipped ==
    SelectionDone =>
        \A j \in 2..Len(page.rows) :
            (/\ Eligible(page.rows[j])
             /\ \A i \in 1..Len(page.rows) : i # j => page.rows[i].kind = "garbled")
                => pret.clicked = Some(j)

\* C11: when the table holds no candidate, or every row is malformed or
\* marked as an existing number, the outcome is the defined "nothing
\* selected" result: a result is returned (no exception ends the call), its
\* selected number is none, and no radio button was clicked; the outcome is
\* the same for every such input.
NoValidCandidate ==
    \A i \in 1..Len(page.rows) :
        page.rows[i].kind # "phone" \/ page.rows[i].marker # "none"
C11_NothingSelectedIsDefinedResult ==
    (SelectionDone /\ NoValidCandidate) =>
        /\ pret.returned = "dict"
        /\ pret.selected = None
        /\ pret.clicked = None

ParseDone == zpc = "done"
\* the runs of exactly 5 digits of a text whose neighbours are no digits
DigitRuns(t) ==
    {<<t[i]>> : i \in {j \in 1..Len(t) :
        /\ t[j].cls = "digit" /\ t[j].n = 5
        /\ j > 1 => t[j - 1].cls # "digit"
        /\ j < Len(t) => t[j + 1].cls # "digit"}}
\* the runs of exactly 5 digits of a text whose neighbours are neither
\* digits nor letters nor underscores
WordRuns(t) ==
    {<<t[i]>> : i \in {j \in 1..Len(t) :
        /\ t[j].cls = "digit" /\ t[j].n = 5
        /\ j > 1 => t[j - 1].cls \notin {"digit", "letter", "underscore"}
        /\ j < Len(t) => t[j + 1].cls \notin {"digit", "letter", "underscore"}}}

\* C13 (as claimed): on string input every run of exactly 5 digits bounded
\* by non-digit characters or the string edges is in the result, also a run
\* next to a letter or an underscore.
C13_EveryDigitBoundedRunRecovered ==
    /\ (ParseDone /\ zin.form = "text") => DigitRuns(zin.text) \subseteq Range(zout)
    /\ (ParseDone /\ zin.form = "json") =>
          \A i \in 1..Len(zin.items) : DigitRuns(zin.items[i].text) \subseteq Range(zout)

\* C13 (amended): on a string that is not a JSON array the result holds
\* exactly the runs of exactly 5 digits whose neighbours are not word
\* characters (letter, digit, underscore), so it is non-empty when there is
\* such a run; a JSON array string is not scanned: every element of the
\* result is a whole element of the array, stripped.
C13_EveryWordBoundedRunRecovered ==
    /\ (ParseDone /\ zin.form = "text") => Range(zout) = WordRuns(zin.text)
    /\ (ParseDone /\ zin.form = "json") =>
          \A i \in 1..Len(zout) :
              \E j \in 1..Len(zin.items) : zout[i] = Strip(zin.items[j].text)
C13_Witness ==
    /\ ParseDone /\ zin.form = "text" /\ Len(zout) = 1
    /\ \E i \in 1..Len(zin.text) : zin.text[i].cls = "punct"
    /\ \E i \in 1..Len(zin.text) : zin.text[i].cls = "letter"

\* C14: every element of the result is a postal code, a string of exactly
\* 5 digits, for a plain string, a JSON array string and a list.
IsPostalCode(str) == Len(str) = 1 /\ str[1].cls = "digit" /\ str[1].n = 5
C14_EveryElementIsPostalCode ==
    ParseDone => \A i \in 1..Len(zout) : IsPostalCode(zout[i])

\* C15: no postal code appears twice in the result, for a plain string, a
\* JSON array string and a list.
C15_ResultHasNoDuplicates ==
    ParseDone => \A i, j \in 1..Len(zout) : i # j => zout[i] # zout[j]

\* C16 (as claimed): in a resolution lookupBatch is called exactly once, as
\* the first call and on the full input, if and only if the input has more
\* than one postal code; lookupOne is then called exactly once for each
\* input postal code that the batch result does not hold (every input
\* postal code when there was no batch call) and never for one it holds.
BatchCalls == {j \in 1..Len(ret.calls) : ret.calls[j].fn = "lookupBatch"}
OneCalls(z) ==
    {j \in 1..Len(ret.calls) : ret.calls[j].fn = "lookupOne" /\ ret.calls[j].zips = <<z>>}
InBatchResult(z) == \E j \in BatchCalls : DictHas(ret.calls[j].out, z)
C16_BatchOnceThenOnePerMiss ==
    ResolveDone =>
        /\ BatchCalls = IF Len(ret.zips) > 1 THEN {1} ELSE {}
        /\ \A j \in BatchCalls : ret.calls[j].zips = ret.zips
        /\ \A z \in Range(ret.zips) :
              Cardinality(OneCalls(z)) = IF InBatchResult(z) THEN 0 ELSE 1
        /\ \A j \in 1..Len(ret.calls) :
              ret.calls[j].fn = "lookupOne" => ret.calls[j].zips[1] \in Range(ret.zips)

\* C16 (amended): lookupBatch is called exactly once, first and on the full
\* input, if and only if the input list has more than one entry; lookupOne
\* is never called for a postal code the batch result holds, and for a
\* postal code it does not hold lookupOne is called once when that lookup
\* finds an area code, and otherwise once for each time the postal code
\* stands in the input list; at most one of these calls asks the oracle.
Occurrences(z) == Cardinality({i \in 1..Len(ret.zips) : ret.zips[i] = z})
C16_BatchOnceThenOnePerMissingEntry ==
    ResolveDone =>
        /\ BatchCalls = IF Len(ret.zips) > 1 THEN {1} ELSE {}
        /\ \A j \in BatchCalls : ret.calls[j].zips = ret.zips
        /\ \A z \in Range(ret.zips) :
              /\ InBatchResult(z) => OneCalls(z) = {}
              /\ ~InBatchResult(z) =>
                    /\ OneCalls(z) # {}
                    /\ Cardinality(OneCalls(z)) =
                          IF \E j \in OneCalls(z) : ret.calls[j].out # <<>>
                          THEN 1 ELSE Occurrences(z)
              /\ Cardinality({j \in OneCalls(z) : ret.calls[j].sent # <<>>}) <= 1
        /\ \A j \in 1..Len(ret.calls) :
              ret.calls[j].fn = "lookupOne" => ret.calls[j].zips[1] \in Range(ret.zips)
C16_Witness ==
    /\ ResolveDone /\ Len(ret.zips) = 2 /\ BatchCalls = {1}
    /\ \E z \in Range(ret.zips) : InBatchResult(z)
    /\ \E z \in Range(ret.zips) : ~InBatchResult(z) /\ Cardinality(OneCalls(z)) = 1

\* C17: after a lookupBatch whose reply is structured, each requested
\* uncached postal code that a group lists is mapped, in the returned mapping
\* and in the cache, to the primary area code of the group that lists it (of
\* the last such group when several list it); a postal code that was not
\* requested or was cached before is neither added to nor changed in the
\* cache, and the mapping holds it only with the value cached before.
BatchDone == pc = "done" /\ ret.op = "lookupBatch"
RequestedUncached == Range(ret.zips) \ DOMAIN ret.before
ListedIn(z) == {i \in 1..Len(ret.reply.blocks) : z \in Range(ret.reply.blocks[i].zips)}
LastGroupCode(z) ==
    ret.reply.blocks[CHOOSE i \in ListedIn(z) : \A j \in ListedIn(z) : j <= i].code
C17_StructuredReplyMapsListedZips ==
    (BatchDone /\ ret.reply.kind = "text") =>
        /\ \A z \in RequestedUncached :
              ListedIn(z) # {} =>
                 /\ DictHas(ret.result, z)
                 /\ DictGet(ret.result, z) = <<LastGroupCode(z)>>
                 /\ z \in DOMAIN cache
                 /\ cache[z] = <<LastGroupCode(z)>>
        /\ \A z \in Zips \ RequestedUncached :
              /\ z \in DOMAIN cache <=> z \in DOMAIN ret.before
              /\ z \in DOMAIN cache => cache[z] = ret.before[z]
              /\ DictHas(ret.result, z) =>
                    /\ z \in Range(ret.zips)
                    /\ DictGet(ret.result, z) = ret.before[z]

\* the postal codes sent to the oracle by the batch lookup, and the 3-digit
\* tokens of its reply, in order
Requested == ret.sent[1]
Token(i) == ret.reply.blocks[i].code
\* structured parsing recorded nothing: no section lists a requested postal code
NoSectionMatch ==
    \A i \in 1..Len(Sections(ret.reply.blocks)) :
        Range(Sections(ret.reply.blocks)[i].zips) \cap Range(Requested) = {}
FallbackCase == BatchDone /\ ret.reply.kind = "text" /\ ret.sent # <<>> /\ NoSectionMatch
\* the i-th requested postal code is paired with the i-th token, in the
\* result and in the cache (a postal code requested twice keeps the pairing
\* of its last place among the first n)
PairedUpTo(n) ==
    \A i \in 1..n :
        (\A j \in (i + 1)..n : Requested[j] # Requested[i]) =>
            /\ DictHas(ret.result, Requested[i])
            /\ DictGet(ret.result, Requested[i]) = <<Token(i)>>
            /\ Requested[i] \in DOMAIN cache
            /\ cache[Requested[i]] = <<Token(i)>>
Smaller(a, b) == IF a <= b THEN a ELSE b

\* C18 (as claimed): when structured parsing yields no match, the i-th
\* 3-digit token of the reply is paired with the i-th requested uncached
\* postal code for every i for which both exist, also when the reply holds
\* fewer tokens than postal codes were requested.
C18_TokensPairedWhereBothExist ==
    FallbackCase => PairedUpTo(Smaller(Len(Requested), Len(ret.reply.blocks)))

\* C18 (amended): when structured parsing yields no match and the reply
\* holds at least as many 3-digit tokens as postal codes were requested,
\* the i-th token is paired with the i-th requested uncached postal code,
\* for every requested postal code; when it holds fewer tokens, nothing is
\* paired: no requested postal code enters the result or the cache.
C18_TokensPairedWhenEnough ==
    FallbackCase =>
        IF Len(ret.reply.blocks) >= Len(Requested)
        THEN PairedUpTo(Len(Requested))
        ELSE /\ cache = ret.before
             /\ \A z \in Range(Requested) : ~DictHas(ret.result, z)
C18_Witness ==
    /\ FallbackCase /\ Len(Requested) = 2 /\ Requested[1] # Requested[2]
    /\ Len(ret.reply.blocks) = 2 /\ Token(1) # Token(2)
    /\ Len(ret.result) = 2

\* C19: after resolve, whenever commonAreaCodes is non-empty, bestAreaCode
\* is its smallest element, hence one of the common area codes.
C19_BestIsSmallestCommon ==
    (ResolveDone /\ ret.common # <<>>) =>
        /\ ret.best # None
        /\ ret.best[1] \in Range(ret.common)
        /\ \A a \in Range(ret.common) : ret.best[1] <= a
C19_Witness ==
    /\ ResolveDone /\ Len(ret.zips) = 2 /\ ret.zips[1] # ret.zips[2]
    /\ Len(ret.result) = 2
    /\ ret.common = <<972>> /\ ret.best = Some(972)

\* C20 (as claimed): the cache is empty at process start, and an entry,
\* once written for a postal code, is never removed and its value never
\* changes: no assignment to the cache replaces a value already written by a
\* different one, also when one reply lists the same postal code under two
\* different area-code groups.
C20_EntryWrittenOnce ==
    /\ cache = <<>>
    /\ [][\A z \in DOMAIN cache : z \in DOMAIN cache' /\ cache'[z] = cache[z]]_vars
    /\ [](pc = "done" =>
            \A k \in 1..Len(ret.writes) :
                /\ ret.writes[k].zip \in DOMAIN ret.before =>
                      ret.before[ret.writes[k].zip] = ret.writes[k].val
                /\ \A j \in 1..(k - 1) :
                      ret.writes[j].zip = ret.writes[k].zip =>
                          ret.writes[j].val = ret.writes[k].val)

\* C20 (amended): the cache is empty at process start; an entry that is in
\* the cache when a call returns is never removed and never changed by a
\* later call: no call assigns to a postal code cached before the call.
\* Within one call a postal code can be assigned more than once (a reply
\* listing it under two groups); the last assignment is the entry that stays.
LastWrite(z) ==
    ret.writes[CHOOSE k \in 1..Len(ret.writes) :
                  /\ ret.writes[k].zip = z
                  /\ \A j \in (k + 1)..Len(ret.writes) : ret.writes[j].zip # z].val
C20_EntryKeptAcrossCalls ==
    /\ cache = <<>>
    /\ [][\A z \in DOMAIN cache : z \in DOMAIN cache' /\ cache'[z] = cache[z]]_vars
    /\ [](pc = "done" =>
            /\ \A k \in 1..Len(ret.writes) : ret.writes[k].zip \notin DOMAIN ret.before
            /\ \A z \in DOMAIN cache :
                  IF z \in DOMAIN ret.before THEN cache[z] = ret.before[z]
                  ELSE \E k \in 1..Len(ret.writes) :
                          ret.writes[k].zip = z /\ cache[z] = LastWrite(z))
C20_Witness ==
    /\ BatchDone /\ Len(ret.writes) = 2
    /\ ret.writes[1].zip = ret.writes[2].zip /\ ret.writes[1].val # ret.writes[2].val
    /\ cache[ret.writes[2].zip] = ret.writes[2].val
    /\ DOMAIN ret.before # {}

\* C22: within one resolve call no postal code is sent to the oracle more
\* than once: no two oracle requests of the call contain the same postal
\* code.
RequestsWith(z) ==
    {j \in 1..Len(ret.calls) :
        \E i \in 1..Len(ret.calls[j].sent) : z \in Range(ret.calls[j].sent[i])}
C22_PostalCodeSentAtMostOnce ==
    ResolveDone => \A z \in Zips : Cardinality(RequestsWith(z)) <= 1

\* C22 (amended): within one resolve call no request is repeated: a postal
\* code is contained in at most one batch request and in at most one single
\* request, and in a single request only when the batch result does not
\* hold it; a postal code the batch request was sent with and did not
\* resolve is therefore sent a second time, by the fill-in step.
C22_NoRequestRepeated ==
    ResolveDone =>
        \A z \in Zips :
            /\ Cardinality(RequestsWith(z) \cap BatchCalls) <= 1
            /\ Cardinality(RequestsWith(z) \ BatchCalls) <= 1
            /\ RequestsWith(z) \ BatchCalls # {} => ~InBatchResult(z)
            /\ RequestsWith(z) \ BatchCalls \subseteq OneCalls(z)
            /\ \A j \in 1..Len(ret.calls) : Len(ret.calls[j].sent) <= 1
\* the batch request failed or was unusable for z, and z was sent again
C22_Witness ==
    /\ ResolveDone
    /\ \E z \in Range(ret.zips) :
          /\ RequestsWith(z) \cap BatchCalls # {}
          /\ RequestsWith(z) \ BatchCalls # {}
          /\ Cardinality(RequestsWith(z)) = 2

\* C23: the same postal codes supplied as a comma-separated string, as a
\* string separated by newlines, spaces, semicolons or pipes, or as a list
\* yield the same set of postal codes, and parsing the same input again
\* yields the same set (whatever order the list comes in).
RECURSIVE Joined(_, _)
Joined(zs, sep) ==
    IF zs = <<>> THEN <<>>
    ELSE IF Len(zs) = 1 THEN <<Digits(5, zs[1])>>
    ELSE <<Digits(5, zs[1]), Ch(sep)>> \o Joined(Tail(zs), sep)
Forms(zs) ==
    {TextInput(Joined(zs, "comma")), TextInput(Joined(zs, "space")),
     ListInput([i \in 1..Len(zs) |-> Str(<<Digits(5, zs[i])>>)])}
C23_SeparatorIndependent ==
    ParseDone =>
        \A zs \in ZipLists :
            zin \in Forms(zs) =>
                \A f \in Forms(zs) : \A out \in parse_zip_codes(f) :
                    /\ Range(out) = Range(zout)
                    /\ Range(out) = {<<Digits(5, zs[i])>> : i \in 1..Len(zs)}
\* two different postal codes separated by a newline, space, semicolon or
\* pipe were parsed
C23_Witness ==
    /\ ParseDone /\ Len(zout) = 2
    /\ \E zs \in ZipLists :
          /\ Len(zs) = 2 /\ zs[1] # zs[2]
          /\ zin = TextInput(Joined(zs, "space"))

\* ============================================ properties: concurrent lookups
Miss(w) == wf[w].pc = "done" /\ ~wf[w].hit

\* C21: when two workflows look up the same uncached postal code
\* concurrently, in every interleaving each lookup issues at most one oracle
\* request, a lookup that completed left a cache entry for its postal code,
\* after both completed the entry is the value one of the two obtained,
\* entries are never removed, a lookup that tests the cache when the postal
\* code is cached returns the entry without an oracle request, and every
\* lookup that started completes.
C21_ConcurrentLookupsSelfHeal ==
    /\ [](\A w \in Workflows :
            /\ Len(wf[w].sent) <= 1
            /\ wf[w].pc = "done" => wf[w].zip \in DOMAIN cache)
    /\ [](\A v, w \in Workflows :
            (v # w /\ Miss(v) /\ Miss(w) /\ wf[v].zip = wf[w].zip)
               => cache[wf[w].zip] \in {wf[v].value, wf[w].value})
    /\ [][ /\ DOMAIN cache \subseteq DOMAIN cache'
           /\ \A w \in Workflows :
                 (wf[w].pc = "test" /\ wf'[w].pc # "test" /\ wf[w].zip \in DOMAIN cache)
                    => /\ wf'[w].pc = "done"
                       /\ wf'[w].value = cache[wf[w].zip]
                       /\ wf'[w].sent = <<>>
                       /\ cache' = cache ]_vars
    /\ \A w \in Workflows : (wf[w].pc # "idle") ~> (wf[w].pc = "done")
\* both workflows missed on the same postal code, each sent its own request,
\* and the two requests were answered differently
C21_Witness ==
    /\ Miss("w1") /\ Miss("w2")
    /\ wf["w1"].zip = wf["w2"].zip
    /\ Len(wf["w1"].sent) = 1 /\ Len(wf["w2"].sent) = 1
    /\ wf["w1"].value # wf["w2"].value
    /\ cache[wf["w1"].zip] = wf["w1"].value

\* ================================================ properties: offboarding
OffboardDone == opc = "done"
Performed(names) == {i \in 1..Len(oret.ops) : oret.ops[i].op \in names}

\* C24: delete_user_and_calendars returns True only if the user was
\* completely offboarded: every calendar of the user was deleted, the phone
\* number was released (when release_phone is set and the user has one) and
\* the account was deleted; no failed calendar deletion or phone release
\* ends in True.
C24_TrueOnlyIfCompletelyOffboarded ==
    (OffboardDone /\ oret.result = Some(TRUE)) =>
        /\ ~ghl.user
        /\ ghl.calendars = {}
        /\ (oret.release_phone /\ oret.before.phone # "none") => ghl.phone = "released"
        /\ \A i \in Performed({"delete_calendar", "release_phone"}) : oret.ops[i].ok

\* C25: for a Slack user that is not in AUTHORIZED_USERS the command is
\* acknowledged and nothing else is done but the private refusal: no token
\* flow, user lookup, calendar deletion, phone release or user deletion and
\* no public message; a public message is posted only after an offboarding
\* that returned True.
C25_UnauthorizedDoesNothing ==
    (OffboardDone /\ oret.via = "slack") =>
        /\ Performed({"ack"}) = {1}
        /\ cmd.user_id \notin AUTHORIZED_USERS =>
              /\ Performed({"oauth", "find_user", "list_calendars", "delete_calendar",
                            "release_phone", "delete_user", "public"}) = {}
              /\ ghl = oret.before
        /\ Performed({"public"}) # {} =>
              /\ oret.result = Some(TRUE)
              /\ \E i \in Performed({"delete_user"}) :
                    oret.ops[i].ok /\ \A j \in Performed({"public"}) : i < j
\* an unauthorized Slack user asked to offboard the existing account
C25_Witness ==
    /\ OffboardDone /\ oret.via = "slack"
    /\ cmd.user_id \notin AUTHORIZED_USERS
    /\ cmd.text.email = UserEmail /\ oret.before.user
    /\ Performed({"ack"}) = {1}

\* ============================== properties: the selected number, the purchase
PurchaseDone == ppc = "done"

\* C26: the phone number that Phone_Number_Purchase reports as selected is
\* always a real number read from a row of the table; the markers
\* 'Existing', 'Wrong Area' and 'Unknown' never reach the caller as the
\* selected number.
C26_SelectedIsRealNumber ==
    (PurchaseDone /\ pret.selected # None) => pret.selected[1].kind = "number"

\* C27: 'Proceed to Buy' is attempted only after a radio button was clicked
\* for a captured valid row; without a captured candidate or a clicked
\* radio button the purchase step is not attempted.
C27_ProceedOnlyAfterRadioClick ==
    (PurchaseDone /\ pret.proceed) =>
        /\ pret.clicked # None
        /\ pret.first_row # None
        /\ page.rows[pret.first_row[1]].kind = "phone"

\* C27 (amended): with a target area code 'Proceed to Buy' is attempted in
\* every run, also when no candidate was captured and when no radio button
\* was clicked (proceed_anyway is set); a click, when there is one, comes
\* before the attempt; without a target area code nothing is attempted.
C27_ProceedWheneverAreaCodeGiven ==
    PurchaseDone =>
        /\ pret.proceed <=> page.area_code # None
        /\ pret.clicked # None => pret.proceed
\* a table with rows was read, no radio button was clicked, and the purchase
\* step was attempted all the same
C27_Witness ==
    /\ PurchaseDone /\ page.rows # <<>> /\ pret.first_row # None
    /\ pret.clicked = None /\ pret.proceed

\* ============================================ properties: cache transparency
\* A deterministic oracle: every postal code has one area code, or none
\* (0), and every reply says just that for the postal codes of its request.
Oracles == [Zips -> AreaCodes \cup {0}]
OracleOne(o, z) == [kind |-> "text", header |-> IF o[z] = 0 THEN None ELSE Some(o[z])]
OracleBatch(o, zs) ==
    [kind |-> "text",
     blocks |-> [i \in 1..Cardinality({o[z] : z \in Range(zs)} \ {0}) |->
                   [code |-> Sorted({o[z] : z \in Range(zs)} \ {0})[i],
                    line |-> TRUE,
                    zips |-> Sorted({z \in Range(zs) :
                                 o[z] = Sorted({o[y] : y \in Range(zs)} \ {0})[i]})]]]
\* the cache holds what this oracle answered to earlier lookups
CachedFrom(c, o) ==
    \A z \in DOMAIN c : c[z] = IF o[z] = 0 THEN <<>> ELSE <<o[z]>>
\* resolve on cache c with this oracle: (all, common, best)
ResolveWith(c, o) ==
    Only({ <<r.all, r.common, r.best>>
         : r \in {get_best_area_code(c, api_key, ret.zips,
                                     OracleBatch(o, UncachedZips(c, ret.zips)),
                                     [z \in Zips |-> OracleOne(o, z)])} })

\* C28: the cache is transparent to resolve: with a deterministic oracle,
\* resolve returns the same (all, common, best) on the cache it found as it
\* returns on an empty cache.
C28_CacheTransparent ==
    ResolveDone =>
        \A o \in Oracles :
            (CachedFrom(ret.before, o)
               /\ <<ret.result, ret.common, ret.best>> = ResolveWith(ret.before, o))
            => <<ret.result, ret.common, ret.best>> = ResolveWith(<<>>, o)

\* C29: lookupBatch returns the cached entry of every requested postal code
\* that was cached, whatever the outcome of the oracle request it sent for
\* the others: also when that request raises.
C29_CachedEntriesAlwaysReturned ==
    (BatchDone /\ ret.sent # <<>>) =>
        \A z \in Range(ret.zips) \cap DOMAIN ret.before :
            DictHas(ret.result, z) /\ DictGet(ret.result, z) = ret.before[z]

\* ======================================= properties: selection by criteria
\* C30: select_phone_number_by_criteria clicks the radio button of the row
\* of the number it returns, also when rows without a radio button come
\* before that row, and it returns a number only when the click happened.
C30_ClickedRadioIsInReturnedRow ==
    (spc = "done" /\ sret.returned # None) =>
        sret.clicked = Some(sret.returned[1].row_index + 1)
====
